---------------------------- MODULE Spec2Model ----------------------------
(***************************************************************************)
(* A model of the RSS feed indexer's three crawl strategies:               *)
(*   single  (src/single.rs)      sequential reference                     *)
(*   multi   (src/multi.rs)       a thread per feed and per article, gated *)
(*                                by three counters with condition         *)
(*                                variables                                *)
(*   pool    (src/pooled.rs, src/threadpool.rs)  two worker pools          *)
(* and of the drivers build_single / build_multi / build_pooled of         *)
(* src/main.rs.                                                            *)
(*                                                                         *)
(* The external collaborators (rss::Channel, process_article, the          *)
(* ArticleIndex of the common module) are mocked: the feed list, and for   *)
(* every feed and article the outcome of its fetch, are inputs chosen in   *)
(* Init and never changed afterwards.                                      *)
(***************************************************************************)
EXTENDS Integers, Sequences, FiniteSets, TLC

(***************************************************************************)
(* Bounds of the exploration.                                              *)
(***************************************************************************)
MaxFeeds == 2
MaxItems == 2
MaxCap == 2
MaxWorkersTotal == 3

(***************************************************************************)
(* The thread limits of src/multi.rs.  They are the values of the program; *)
(* the exploration also runs the protocol with every smaller choice of     *)
(* caps in 1..MaxCap (+1 for the total tier), because a crawl of MaxFeeds  *)
(* feeds cannot reach the program's own limits.                            *)
(***************************************************************************)
MAX_THREADS_FEEDS == 5
MAX_THREADS_SITES == 10
MAX_THREADS_TOTAL == 18

Hosts == {"s1", "s2"}
NoHost == "nohost"
Pools == {"feed", "sites"}
\* The kill message of the worker pool: JobMsg's None.
NoneMsg == <<0, 0>>
MainThread == <<"main", 0>>
NoWorker == <<"none", 0>>
Words == {"w1", "w2"}

VARIABLES
    strategy,       \* "single" | "multi" | "pool": the CLI's second argument
    fileOk,         \* whether File::open / Channel::read_from succeed
    feeds,          \* the feed list: a sequence of feed descriptors
    cap,            \* the three limits in force: [total, feeds, sites]
    pcMain,         \* position of the main thread
    result,         \* what build_* returned: "none" | "ok" | "err"
    pc,             \* position of every feed thread <<f,0>> and article thread <<f,i>>
    feeds_count,    \* ThreadCount.feeds_count
    sites_count,    \* ThreadCount.sites_count: a map with lazily inserted keys
    total_count,    \* ThreadCount.total_count
    held,           \* per thread, the increments it has made and not yet undone
    article_index,  \* the accumulator: article -> word -> count
    rss_index,      \* the finalized index: a set of <<word, article, count>>
    builds,         \* number of calls of build_index
    cursor,         \* single, pool: index of the feed the main loop is at
    poolSize,       \* pool: the number of workers of each pool: [feed, sites]
    queue,          \* pool: per pool, the messages in its mpsc channel
    wpc,            \* pool: position of every worker thread
    wjob,           \* pool: the job a worker has taken
    rxLock,         \* pool: per pool, the worker holding the Mutex<Receiver>
    stp_refs,       \* pool: strong count of stp_arc (Arc<Mutex<ThreadPool>>)
    stp_poisoned,   \* pool: whether the Mutex<ThreadPool> is poisoned
    phase,          \* pool: per pool, "none" | "running" | "sending" | "joining"
                    \*       | "stopped" (drop returned) | "failed" (drop panicked)
    dropper,        \* pool: per pool, the thread running its Drop::drop
    sent,           \* pool: per pool, the kill messages sent so far
    unwinding,      \* pool: the threads that are panicking
    execs,          \* pool: per job, how many times a worker called it
    item_cursor,    \* pool: per feed-job, the item its loop is at
    submitted,      \* pool: per pool, the tasks execute has enqueued, in order
    started,        \* pool: per pool, the tasks the workers received, in order
    waited          \* multi: the article threads that have slept on the site tier

poolVars == <<queue, wpc, wjob, rxLock, stp_refs, stp_poisoned, phase, dropper,
              sent, unwinding, execs, item_cursor, submitted, started>>

inputs == <<strategy, fileOk, feeds, cap, poolSize>>

vars == <<inputs, waited, pcMain, result, pc, feeds_count, sites_count, total_count, held,
          article_index, rss_index, builds, cursor, poolVars>>

(***************************************************************************)
(* Inputs.                                                                 *)
(***************************************************************************)
ItemKinds == {"ok", "skip", "fail"}

SeqsUpTo(S, n) == UNION {[1..k -> S] : k \in 0..n}

\* "nolink": the feed item has no link or no title.  "fetchfail":
\* Channel::from_url fails; neither kind of feed gets to its site or items.
\* A feed whose url has no host is [site |-> NoHost]: the match of
\* process_feed skips its items whatever they are, so they are given as
\* items that would survive otherwise.
FeedChoices ==
    {[kind |-> k, site |-> "s1", items |-> <<>>] : k \in {"nolink", "fetchfail"}}
    \cup {[kind |-> "ok", site |-> s, items |-> it] :
             s \in Hosts, it \in SeqsUpTo(ItemKinds, MaxItems)}
    \cup {[kind |-> "ok", site |-> NoHost, items |-> it] :
             it \in SeqsUpTo({"ok"}, MaxItems) \ {<<>>}}

\* The feed lists.  Hosts are names and nothing in the program tells one
\* from another, so of the lists that differ by a renaming of hosts one is
\* kept: the first host a list uses is "s1".
FeedLists ==
    {fs \in SeqsUpTo(FeedChoices, MaxFeeds) :
        \A k \in 1..Len(fs) :
            fs[k].site = "s2" =>
                \E j \in 1..(k - 1) : fs[j].kind = "ok" /\ fs[j].site = "s1"}

DefaultCaps ==
    [total |-> MAX_THREADS_TOTAL, feeds |-> MAX_THREADS_FEEDS,
     sites |-> MAX_THREADS_SITES]

CapChoices ==
    {[total |-> t, feeds |-> f, sites |-> s] :
        t \in 1..(MaxCap + 1), f \in 1..MaxCap, s \in 1..MaxCap}
    \cup {DefaultCaps}

\* The sizes of the two pools (SIZE_FEEDS_POOL = 3 and SIZE_SITES_POOL = 20 in
\* the program): every choice with at most MaxWorkersTotal workers in all.
PoolSizeChoices ==
    {ps \in [feed : 1..MaxWorkersTotal, sites : 1..MaxWorkersTotal] :
        ps.feed + ps.sites <= MaxWorkersTotal}

Workers == {<<p, k>> : p \in Pools, k \in 1..(MaxWorkersTotal - 1)}

NumFeeds == Len(feeds)
FeedIds == 1..NumFeeds
ThreadIds == {<<f, i>> : f \in 1..MaxFeeds, i \in 0..MaxItems}
FeedThread(f) == <<f, 0>>
ArticleThreads(f) == {<<f, i>> : i \in 1..Len(feeds[f].items)}
IsFeedThread(t) == t[2] = 0
Site(t) == feeds[t[1]].site
Item(t) == feeds[t[1]].items[t[2]]

\* An item survives the match of process_feed when it has a link and a title
\* and the feed's url has a host.
Survives(f, i) == feeds[f].site # NoHost /\ feeds[f].items[i] # "skip"

\* Article identity (title, url): the items of feeds on the same host name
\* the same articles.
Article(f, i) == <<feeds[f].site, i>>

\* The mocked tokenizer: the word counts of one article, by its place in the
\* feed (the second word is absent from every article but the first).
article_words(a) ==
    [w \in Words |-> IF w = "w1" THEN a[2] ELSE IF a[2] = 1 THEN 1 ELSE 0]

(***************************************************************************)
(* The accumulator and its finalization (common module; see spec 4.4).     *)
(***************************************************************************)
EmptyIndex == [a \in {} |-> 0]

add(index, a, words) ==
    IF a \in DOMAIN index
        THEN [index EXCEPT ![a] = [w \in Words |-> @[w] + words[w]]]
        ELSE index @@ (a :> words)

build_index(index) ==
    {<<w, a, index[a][w]>> : w \in Words, a \in DOMAIN index} \
    {<<w, a, 0>> : w \in Words, a \in DOMAIN index}

(***************************************************************************)
(* Initial state.                                                          *)
(***************************************************************************)
NoHold == [feeds |-> 0, sites |-> 0, total |-> 0]

InitWith(strategies) ==
    /\ strategy \in strategies
    /\ fileOk \in BOOLEAN
    /\ feeds \in FeedLists
    /\ cap \in IF strategy = "multi" THEN CapChoices ELSE {DefaultCaps}
    /\ poolSize \in IF strategy = "pool" THEN PoolSizeChoices
                                        ELSE {[feed |-> 1, sites |-> 1]}
    /\ pcMain = "start"
    /\ result = "none"
    /\ pc = [t \in ThreadIds |-> "unspawned"]
    /\ feeds_count = 0
    /\ sites_count = [s \in {} |-> 0]
    /\ total_count = 0
    /\ held = [t \in ThreadIds |-> NoHold]
    /\ article_index = EmptyIndex
    /\ rss_index = {}
    /\ builds = 0
    /\ cursor = 0
    /\ queue = [p \in Pools |-> <<>>]
    /\ wpc = [w \in Workers |-> "absent"]
    /\ wjob = [w \in Workers |-> NoneMsg]
    /\ rxLock = [p \in Pools |-> NoWorker]
    /\ stp_refs = 0
    /\ stp_poisoned = FALSE
    /\ phase = [p \in Pools |-> "none"]
    /\ dropper = [p \in Pools |-> NoWorker]
    /\ sent = [p \in Pools |-> 0]
    /\ unwinding = {}
    /\ execs = [t \in ThreadIds |-> 0]
    /\ item_cursor = [f \in 1..MaxFeeds |-> 0]
    /\ submitted = [p \in Pools |-> <<>>]
    /\ started = [p \in Pools |-> <<>>]
    /\ waited = {}

(***************************************************************************)
(* Condition variables.  A thread in "fc_wait" / "sc_wait" / "tc_wait" is  *)
(* in the wait set of the feeds / sites / total condvar; a woken thread    *)
(* goes back to the head of its while loop ("fc_lock", ...), where it      *)
(* re-acquires the mutex and re-checks the counter.                        *)
(***************************************************************************)
Waiters(w) == {t \in ThreadIds : pc[t] = w}

Retry(w) ==
    CASE w = "fc_wait" -> "fc_lock"
      [] w = "sc_wait" -> "sc_lock"
      [] w = "tc_wait" -> "tc_lock"

\* Condvar::notify_one by thread self, which moves on to `next`: one waiter,
\* any one, is woken; nobody when the wait set is empty.
notify_one(self, next, w) ==
    IF Waiters(w) = {}
        THEN pc' = [pc EXCEPT ![self] = next]
        ELSE \E t \in Waiters(w) :
                 pc' = [pc EXCEPT ![self] = next, ![t] = Retry(w)]

\* A spurious wakeup of Condvar::wait.
SpuriousWakeup(t) ==
    /\ strategy = "multi"
    /\ pc[t] \in {"fc_wait", "sc_wait", "tc_wait"}
    /\ pc' = [pc EXCEPT ![t] = Retry(pc[t])]
    /\ UNCHANGED <<inputs, waited, poolVars, pcMain, result, feeds_count, sites_count, total_count,
                   held, article_index, rss_index, builds, cursor>>

(***************************************************************************)
(* multi::process_feed_file, main thread.                                  *)
(***************************************************************************)
\* File::open and Channel::read_from, then the loop that spawns one thread
\* per feed.
MultiOpen ==
    /\ strategy = "multi"
    /\ pcMain = "start"
    /\ IF fileOk
          THEN /\ pc' = [t \in ThreadIds |->
                            IF IsFeedThread(t) /\ t[1] \in FeedIds
                               THEN "fc_lock" ELSE pc[t]]
               /\ pcMain' = "join"
               /\ result' = result
          ELSE /\ pcMain' = "done"
               /\ result' = "err"
               /\ pc' = pc
    /\ UNCHANGED <<inputs, waited, poolVars, feeds_count, sites_count, total_count, held,
                   article_index, rss_index, builds, cursor>>

Terminated(t) == pc[t] \in {"done", "panicked"}

\* for handle in handles { handle.join(); }  then Result::Ok(())
MultiJoin ==
    /\ strategy = "multi"
    /\ pcMain = "join"
    /\ \A f \in FeedIds : Terminated(FeedThread(f))
    /\ pcMain' = "returned"
    /\ UNCHANGED <<inputs, waited, poolVars, result, pc, feeds_count, sites_count, total_count, held,
                   article_index, rss_index, builds, cursor>>

\* build_multi after process_feed_file returned Ok: lock the index, build_index.
MultiBuild ==
    /\ strategy = "multi"
    /\ pcMain = "returned"
    /\ rss_index' = build_index(article_index)
    /\ builds' = builds + 1
    /\ result' = "ok"
    /\ pcMain' = "done"
    /\ UNCHANGED <<inputs, waited, poolVars, pc, feeds_count, sites_count, total_count, held,
                   article_index, cursor>>

(***************************************************************************)
(* multi::process_feed_file, the feed thread.                              *)
(***************************************************************************)
\* lock feeds_count; while *fc >= MAX_THREADS_FEEDS { wait }; *fc += 1
FeedAcquireFeeds(f) ==
    /\ pc[FeedThread(f)] = "fc_lock"
    /\ IF feeds_count >= cap.feeds
          THEN /\ pc' = [pc EXCEPT ![FeedThread(f)] = "fc_wait"]
               /\ UNCHANGED <<feeds_count, held>>
          ELSE /\ feeds_count' = feeds_count + 1
               /\ held' = [held EXCEPT ![FeedThread(f)].feeds = @ + 1]
               /\ pc' = [pc EXCEPT ![FeedThread(f)] = "tc_lock"]
    /\ UNCHANGED <<inputs, waited, poolVars, pcMain, result, sites_count, total_count,
                   article_index, rss_index, builds, cursor>>

\* A faulty variant of AcquireTotal: the loop tests > where the code tests >=.
AcquireTotalOffByOne(t, next) ==
    /\ pc[t] = "tc_lock"
    /\ IF total_count > cap.total
          THEN /\ pc' = [pc EXCEPT ![t] = "tc_wait"]
               /\ UNCHANGED <<total_count, held>>
          ELSE /\ total_count' = total_count + 1
               /\ held' = [held EXCEPT ![t].total = @ + 1]
               /\ pc' = [pc EXCEPT ![t] = next]
    /\ UNCHANGED <<inputs, waited, poolVars, pcMain, result, feeds_count, sites_count,
                   article_index, rss_index, builds, cursor>>

\* lock total_count; while *tot_c >= MAX_THREADS_TOTAL { wait }; *tot_c += 1
\* (the same code in the feed thread and in the article thread)
AcquireTotal(t, next) ==
    /\ pc[t] = "tc_lock"
    /\ IF total_count >= cap.total
          THEN /\ pc' = [pc EXCEPT ![t] = "tc_wait"]
               /\ UNCHANGED <<total_count, held>>
          ELSE /\ total_count' = total_count + 1
               /\ held' = [held EXCEPT ![t].total = @ + 1]
               /\ pc' = [pc EXCEPT ![t] = next]
    /\ UNCHANGED <<inputs, waited, poolVars, pcMain, result, feeds_count, sites_count,
                   article_index, rss_index, builds, cursor>>

FeedAcquireTotal(f) == AcquireTotal(FeedThread(f), "process_feed")

\* feed.link().unwrap(), feed.title().unwrap(), process_feed(..).unwrap():
\* a missing link or title, or a failed Channel::from_url, panics the thread
\* where it stands.  Otherwise process_feed spawns one thread per surviving
\* item and goes on to join them.
FeedProcess(f) ==
    /\ pc[FeedThread(f)] = "process_feed"
    /\ IF feeds[f].kind # "ok"
          THEN pc' = [pc EXCEPT ![FeedThread(f)] = "panicked"]
          ELSE pc' = [t \in ThreadIds |->
                         IF t = FeedThread(f) THEN "join"
                         ELSE IF t \in ArticleThreads(f) /\ Survives(f, t[2])
                                 THEN "sc_lock" ELSE pc[t]]
    /\ UNCHANGED <<inputs, waited, poolVars, pcMain, result, feeds_count, sites_count, total_count,
                   held, article_index, rss_index, builds, cursor>>

\* process_feed: for handle in handles { handle.join(); }
FeedJoin(f) ==
    /\ pc[FeedThread(f)] = "join"
    /\ \A t \in ArticleThreads(f) : pc[t] = "unspawned" \/ Terminated(t)
    /\ pc' = [pc EXCEPT ![FeedThread(f)] = "fc_release"]
    /\ UNCHANGED <<inputs, waited, poolVars, pcMain, result, feeds_count, sites_count, total_count,
                   held, article_index, rss_index, builds, cursor>>

\* *fc -= 1; fc_cvar.notify_one()
FeedReleaseFeeds(f) ==
    /\ pc[FeedThread(f)] = "fc_release"
    /\ feeds_count' = feeds_count - 1
    /\ held' = [held EXCEPT ![FeedThread(f)].feeds = @ - 1]
    /\ notify_one(FeedThread(f), "tc_release", "fc_wait")
    /\ UNCHANGED <<inputs, waited, poolVars, pcMain, result, sites_count, total_count,
                   article_index, rss_index, builds, cursor>>

\* A faulty variant of ReleaseTotal: the decrement without the notify_one.
ReleaseTotalNoNotify(t) ==
    /\ pc[t] = "tc_release"
    /\ total_count' = total_count - 1
    /\ held' = [held EXCEPT ![t].total = @ - 1]
    /\ pc' = [pc EXCEPT ![t] = "done"]
    /\ UNCHANGED <<inputs, waited, poolVars, pcMain, result, feeds_count, sites_count,
                   article_index, rss_index, builds, cursor>>

\* *tot_c -= 1; tc_cvar.notify_one()
\* (the same code in the feed thread and in the article thread)
ReleaseTotal(t) ==
    /\ pc[t] = "tc_release"
    /\ total_count' = total_count - 1
    /\ held' = [held EXCEPT ![t].total = @ - 1]
    /\ notify_one(t, "done", "tc_wait")
    /\ UNCHANGED <<inputs, waited, poolVars, pcMain, result, feeds_count, sites_count,
                   article_index, rss_index, builds, cursor>>

FeedReleaseTotal(f) == ReleaseTotal(FeedThread(f))

(***************************************************************************)
(* multi::process_feed, the article thread.                                *)
(***************************************************************************)
\* A faulty variant of ArticleAcquireSite: the increment made before the while loop.
ArticleAcquireSiteEager(t) ==
    /\ ~IsFeedThread(t)
    /\ pc[t] = "sc_lock"
    /\ LET sc == IF Site(t) \in DOMAIN sites_count
                    THEN sites_count ELSE sites_count @@ (Site(t) :> 0)
       IN  IF held[t].sites = 0
              THEN /\ sites_count' = [sc EXCEPT ![Site(t)] = @ + 1]
                   /\ held' = [held EXCEPT ![t].sites = @ + 1]
                   /\ pc' = [pc EXCEPT ![t] =
                                IF sc[Site(t)] >= cap.sites THEN "sc_wait" ELSE "tc_lock"]
                   /\ waited' = IF sc[Site(t)] >= cap.sites
                                    THEN waited \cup {t} ELSE waited
              ELSE /\ UNCHANGED <<sites_count, held>>
                   /\ pc' = [pc EXCEPT ![t] =
                                IF sc[Site(t)] > cap.sites THEN "sc_wait" ELSE "tc_lock"]
                   /\ waited' = IF sc[Site(t)] > cap.sites
                                    THEN waited \cup {t} ELSE waited
    /\ UNCHANGED <<inputs, poolVars, pcMain, result, feeds_count, total_count,
                   article_index, rss_index, builds, cursor>>

\* lock sites_count; insert 0 for an unseen site;
\* while sites[site] >= MAX_THREADS_SITES { wait }; sites[site] += 1
ArticleAcquireSite(t) ==
    /\ ~IsFeedThread(t)
    /\ pc[t] = "sc_lock"
    /\ LET sc == IF Site(t) \in DOMAIN sites_count
                    THEN sites_count ELSE sites_count @@ (Site(t) :> 0)
       IN  IF sc[Site(t)] >= cap.sites
              THEN /\ sites_count' = sc
                   /\ pc' = [pc EXCEPT ![t] = "sc_wait"]
                   /\ held' = held
                   /\ waited' = waited \cup {t}
              ELSE /\ sites_count' = [sc EXCEPT ![Site(t)] = @ + 1]
                   /\ held' = [held EXCEPT ![t].sites = @ + 1]
                   /\ pc' = [pc EXCEPT ![t] = "tc_lock"]
                   /\ waited' = waited
    /\ UNCHANGED <<inputs, poolVars, pcMain, result, feeds_count, total_count,
                   article_index, rss_index, builds, cursor>>

ArticleAcquireTotal(t) == ~IsFeedThread(t) /\ AcquireTotal(t, "process_article")

\* process_article(&article).unwrap(); ind.lock().unwrap().add(..)
\* A failed fetch panics the thread where it stands.
ArticleProcess(t) ==
    /\ ~IsFeedThread(t)
    /\ pc[t] = "process_article"
    /\ IF Item(t) = "fail"
          THEN /\ pc' = [pc EXCEPT ![t] = "panicked"]
               /\ article_index' = article_index
          ELSE /\ article_index' = add(article_index, Article(t[1], t[2]),
                                       article_words(Article(t[1], t[2])))
               /\ pc' = [pc EXCEPT ![t] = "sc_release"]
    /\ UNCHANGED <<inputs, waited, poolVars, pcMain, result, feeds_count, sites_count, total_count,
                   held, rss_index, builds, cursor>>

\* A faulty variant of ArticleReleaseSite: the slot is given back without
\* sc_cvar.notify_one().
ArticleReleaseSiteNoNotify(t) ==
    /\ ~IsFeedThread(t)
    /\ pc[t] = "sc_release"
    /\ sites_count' = [sites_count EXCEPT ![Site(t)] = @ - 1]
    /\ held' = [held EXCEPT ![t].sites = @ - 1]
    /\ pc' = [pc EXCEPT ![t] = "tc_release"]
    /\ UNCHANGED <<inputs, waited, poolVars, pcMain, result, feeds_count, total_count,
                   article_index, rss_index, builds, cursor>>

\* sites[site] -= 1; sc_cvar.notify_one()
ArticleReleaseSite(t) ==
    /\ ~IsFeedThread(t)
    /\ pc[t] = "sc_release"
    /\ sites_count' = [sites_count EXCEPT ![Site(t)] = @ - 1]
    /\ held' = [held EXCEPT ![t].sites = @ - 1]
    /\ notify_one(t, "tc_release", "sc_wait")
    /\ UNCHANGED <<inputs, waited, poolVars, pcMain, result, feeds_count, total_count,
                   article_index, rss_index, builds, cursor>>

ArticleReleaseTotal(t) == ~IsFeedThread(t) /\ ReleaseTotal(t)

(***************************************************************************)
(* single::process_feed_file and build_single.                             *)
(***************************************************************************)
RECURSIVE single_process_feed(_, _, _)
\* The item loop of single::process_feed from item i on: Err at the first
\* article whose fetch fails, the index after the last item otherwise.
single_process_feed(index, f, i) ==
    IF i > Len(feeds[f].items) THEN [ok |-> TRUE, index |-> index]
    ELSE IF ~Survives(f, i) THEN single_process_feed(index, f, i + 1)
    ELSE IF feeds[f].items[i] = "fail" THEN [ok |-> FALSE, index |-> index]
    ELSE single_process_feed(
             add(index, Article(f, i), article_words(Article(f, i))), f, i + 1)

RECURSIVE single_process_feed_file(_, _)
\* The loop of single::process_feed_file from feed f on.
single_process_feed_file(index, f) ==
    IF f > NumFeeds THEN [ok |-> TRUE, index |-> index]
    ELSE IF feeds[f].kind # "ok" THEN [ok |-> FALSE, index |-> index]
    ELSE LET r == single_process_feed(index, f, 1)
         IN  IF r.ok THEN single_process_feed_file(r.index, f + 1) ELSE r

\* build_single as a function of the inputs: the reference outcome.
build_single ==
    IF ~fileOk THEN [result |-> "err", rss_index |-> {}]
    ELSE LET r == single_process_feed_file(EmptyIndex, 1)
         IN  IF r.ok THEN [result |-> "ok", rss_index |-> build_index(r.index)]
             ELSE [result |-> "err", rss_index |-> {}]

SingleOpen ==
    /\ strategy = "single"
    /\ pcMain = "start"
    /\ IF fileOk
          THEN /\ pcMain' = "loop"
               /\ cursor' = 1
               /\ result' = result
          ELSE /\ pcMain' = "done"
               /\ result' = "err"
               /\ cursor' = cursor
    /\ UNCHANGED <<inputs, waited, poolVars, pc, feeds_count, sites_count, total_count, held,
                   article_index, rss_index, builds>>

\* One iteration of the loop over the feeds: link()?, title()?, process_feed(..)?
SingleFeed ==
    /\ strategy = "single"
    /\ pcMain = "loop"
    /\ cursor <= NumFeeds
    /\ IF feeds[cursor].kind # "ok"
          THEN /\ pcMain' = "done"
               /\ result' = "err"
               /\ UNCHANGED <<article_index, cursor>>
          ELSE LET r == single_process_feed(article_index, cursor, 1)
               IN  /\ article_index' = r.index
                   /\ IF r.ok
                         THEN /\ cursor' = cursor + 1
                              /\ UNCHANGED <<pcMain, result>>
                         ELSE /\ pcMain' = "done"
                              /\ result' = "err"
                              /\ cursor' = cursor
    /\ UNCHANGED <<inputs, waited, poolVars, pc, feeds_count, sites_count, total_count, held,
                   rss_index, builds>>

\* build_single after process_feed_file returned Ok.
SingleBuild ==
    /\ strategy = "single"
    /\ pcMain = "loop"
    /\ cursor > NumFeeds
    /\ rss_index' = build_index(article_index)
    /\ builds' = builds + 1
    /\ result' = "ok"
    /\ pcMain' = "done"
    /\ UNCHANGED <<inputs, waited, poolVars, pc, feeds_count, sites_count, total_count, held,
                   article_index, cursor>>

(***************************************************************************)
(* threadpool.rs: the worker pool.                                         *)
(*                                                                         *)
(* A worker is at "lock" (waiting for the Mutex<Receiver>), "recv" (holding*)
(* it, blocked in recv), "run" (calling a job, the mutex released),        *)
(* "exited" (left the loop on None) or "panicked" (a job panicked).  A     *)
(* feed worker is further at "drop_job" (dropping the job's Arc clone of   *)
(* the sites pool), "site_drop_job" / "site_drop_exit" (running the sites  *)
(* pool's Drop, because it dropped the last clone) and "after_job".        *)
(*                                                                         *)
(* The Receiver lives in an Arc shared by the workers of the pool: it is   *)
(* dropped, with every message still queued, when the last of them ends,   *)
(* and from then on Sender::send fails.                                    *)
(***************************************************************************)
PoolOf(w) == w[1]
\* A faulty variant of PoolWorkers: ThreadPool::new starts one worker too many.
PoolWorkersOneMore(p) == {w \in Workers : PoolOf(w) = p /\ w[2] <= poolSize[p] + 1}

\* for i in 0..num_workers { .. thread::spawn .. }: the workers of pool p.
PoolWorkers(p) == {w \in Workers : PoolOf(w) = p /\ w[2] <= poolSize[p]}
WorkerEnded(w) == wpc[w] \in {"exited", "panicked"}
\* The worker has dropped its clone of the Arc<Mutex<Receiver>>.
ReceiverGone(w) == wpc[w] \in {"exited", "panicked", "site_drop_exit"}
Disconnected(p) == \A w \in PoolWorkers(p) : ReceiverGone(w)
LastReceiver(w) == \A v \in PoolWorkers(PoolOf(w)) \ {w} : ReceiverGone(v)
QueuedJobs(p) == {queue[p][k] : k \in 1..Len(queue[p])} \ {NoneMsg}
\* The process is still running: no panic has reached main's caller and no
\* panic was raised while panicking.
Alive == result \notin {"panic", "abort"}

\* rx_i.lock().unwrap() at the head of the worker loop.  The mutex is granted
\* as soon as it is free; the workers of a pool run the same code and
\* nothing tells them apart, so of the workers waiting at "lock" the first
\* is taken to get it.  Grant(wp, lk) is the worker positions wp and lock
\* holders lk after the free mutexes have been granted.
Grant(wp, lk) ==
    LET waiting(p) == {w \in PoolWorkers(p) : wp[w] = "lock"}
        first(p) == CHOOSE w \in waiting(p) : \A v \in waiting(p) : w[2] <= v[2]
        give(p) == lk[p] = NoWorker /\ waiting(p) # {}
    IN  [wpc |-> [w \in Workers |->
                    IF give(PoolOf(w)) /\ w = first(PoolOf(w)) THEN "recv" ELSE wp[w]],
         rxLock |-> [p \in Pools |-> IF give(p) THEN first(p) ELSE lk[p]]]

\* A faulty variant of NextSurviving: the item loop ends at the first item
\* that does not survive (break where the code has continue).
NextSurvivingStopsAtSkip(f, i) ==
    IF i <= Len(feeds[f].items) /\ Survives(f, i) THEN i
    ELSE Len(feeds[f].items) + 1

\* The first item from i on that survives the match of process_feed.
NextSurviving(f, i) ==
    LET S == {k \in i..Len(feeds[f].items) : Survives(f, k)}
    IN  IF S = {} THEN Len(feeds[f].items) + 1
        ELSE CHOOSE k \in S : \A m \in S : k <= m

\* A faulty variant of PoolNew: the result of File::open is not looked at and
\* the feeds are dispatched all the same.
PoolNewOpenUnchecked ==
    /\ strategy = "pool"
    /\ pcMain = "start"
    /\ LET g == Grant([w \in Workers |->
                          IF w \in PoolWorkers(PoolOf(w)) THEN "lock" ELSE "absent"],
                      rxLock)
       IN  wpc' = g.wpc /\ rxLock' = g.rxLock
    /\ phase' = [p \in Pools |-> "running"]
    /\ stp_refs' = 1
    /\ IF NumFeeds > 0
          THEN pcMain' = "loop" /\ cursor' = 1
          ELSE pcMain' = "drop_stp" /\ cursor' = cursor
    /\ UNCHANGED <<inputs, waited, submitted, started, result, pc, feeds_count, sites_count, total_count, held,
                   article_index, rss_index, builds, queue, wjob,
                   stp_poisoned, dropper, sent, unwinding, execs, item_cursor>>

\* pooled::process_feed_file: ThreadPool::new twice (the workers start),
\* Arc::new, then File::open(file_name)? and Channel::read_from(..)?
PoolNew ==
    /\ strategy = "pool"
    /\ pcMain = "start"
    /\ LET g == Grant([w \in Workers |->
                          IF w \in PoolWorkers(PoolOf(w)) THEN "lock" ELSE "absent"],
                      rxLock)
       IN  wpc' = g.wpc /\ rxLock' = g.rxLock
    /\ phase' = [p \in Pools |-> "running"]
    /\ stp_refs' = 1
    /\ IF fileOk /\ NumFeeds > 0
          THEN pcMain' = "loop" /\ cursor' = 1
          ELSE pcMain' = "drop_stp" /\ cursor' = cursor
    /\ UNCHANGED <<inputs, waited, submitted, started, result, pc, feeds_count, sites_count, total_count, held,
                   article_index, rss_index, builds, queue, wjob,
                   stp_poisoned, dropper, sent, unwinding, execs, item_cursor>>

\* One iteration of the loop of pooled::process_feed_file: clone the Arcs,
\* build the closure pff, feed_thread_pool.execute(pff).  ThreadPool::execute
\* unwraps the send, which fails when the Receiver is gone.
PoolExecuteFeed ==
    /\ strategy = "pool"
    /\ Alive
    /\ pcMain = "loop"
    /\ cursor <= NumFeeds
    /\ IF Disconnected("feed")
          THEN /\ unwinding' = unwinding \cup {MainThread}
               /\ pc' = [pc EXCEPT ![FeedThread(cursor)] = "rejected"]
               /\ pcMain' = "drop_stp"
               /\ UNCHANGED <<queue, stp_refs, cursor, submitted>>
          ELSE /\ queue' = [queue EXCEPT !["feed"] = Append(@, FeedThread(cursor))]
               /\ submitted' = [submitted EXCEPT !["feed"] =
                                    Append(@, FeedThread(cursor))]
               /\ pc' = [pc EXCEPT ![FeedThread(cursor)] = "queued"]
               /\ stp_refs' = stp_refs + 1
               /\ cursor' = cursor + 1
               /\ pcMain' = IF cursor = NumFeeds THEN "drop_stp" ELSE "loop"
               /\ UNCHANGED unwinding
    /\ UNCHANGED <<inputs, waited, started, result, feeds_count, sites_count, total_count, held,
                   article_index, rss_index, builds, wpc, wjob, rxLock,
                   stp_poisoned, phase, dropper, sent, execs, item_cursor>>

\* A faulty variant of MainDropStp: process_feed_file owns the sites pool
\* itself, so leaving the function shuts the pool down whatever the
\* feed-jobs still hold.
MainDropStpShutsDown ==
    /\ strategy = "pool"
    /\ Alive
    /\ pcMain = "drop_stp"
    /\ stp_refs' = stp_refs - 1
    /\ phase' = [phase EXCEPT !["sites"] = "sending"]
    /\ dropper' = [dropper EXCEPT !["sites"] = MainThread]
    /\ pcMain' = "site_drop"
    /\ UNCHANGED <<inputs, waited, submitted, started, result, pc, feeds_count, sites_count, total_count, held,
                   article_index, rss_index, builds, cursor, queue, wpc, wjob,
                   rxLock, stp_poisoned, sent, unwinding, execs, item_cursor>>

\* Leaving pooled::process_feed_file (by return or by unwinding) drops
\* stp_arc first; the sites pool is dropped with the last clone.
MainDropStp ==
    /\ strategy = "pool"
    /\ Alive
    /\ pcMain = "drop_stp"
    /\ stp_refs' = stp_refs - 1
    /\ IF stp_refs = 1
          THEN /\ phase' = [phase EXCEPT !["sites"] = "sending"]
               /\ dropper' = [dropper EXCEPT !["sites"] = MainThread]
               /\ pcMain' = "site_drop"
          ELSE /\ pcMain' = "drop_feed"
               /\ UNCHANGED <<phase, dropper>>
    /\ UNCHANGED <<inputs, waited, submitted, started, result, pc, feeds_count, sites_count, total_count, held,
                   article_index, rss_index, builds, cursor, queue, wpc, wjob,
                   rxLock, stp_poisoned, sent, unwinding, execs, item_cursor>>

\* ... and feed_thread_pool after it.
MainDropFeedPool ==
    /\ strategy = "pool"
    /\ Alive
    /\ pcMain = "drop_feed"
    /\ phase' = [phase EXCEPT !["feed"] = "sending"]
    /\ dropper' = [dropper EXCEPT !["feed"] = MainThread]
    /\ pcMain' = "feed_drop"
    /\ UNCHANGED <<inputs, waited, submitted, started, result, pc, feeds_count, sites_count, total_count, held,
                   article_index, rss_index, builds, cursor, queue, wpc, wjob,
                   rxLock, stp_refs, stp_poisoned, sent, unwinding, execs,
                   item_cursor>>

\* Where the thread that ran the Drop of pool p goes on.
AfterDrop(p) ==
    IF dropper[p] = MainThread
       THEN /\ pcMain' = IF p = "sites" THEN "drop_feed" ELSE "exit_fn"
            /\ wpc' = wpc
       ELSE /\ pcMain' = pcMain
            /\ wpc' = [wpc EXCEPT ![dropper[p]] =
                          IF @ = "site_drop_job" THEN "after_job" ELSE "panicked"]

\* Drop::drop, first loop: self.sender.send(None).unwrap(), once per worker.
\* A failed send panics the dropping thread; a panic of a thread that is
\* already panicking aborts the process.
DropSend(p) ==
    /\ strategy = "pool"
    /\ Alive
    /\ phase[p] = "sending"
    /\ IF Disconnected(p)
          THEN IF dropper[p] \in unwinding
                  THEN /\ result' = "abort"
                       /\ UNCHANGED <<pcMain, wpc, phase, unwinding, queue, sent>>
                  ELSE /\ unwinding' = unwinding \cup {dropper[p]}
                       /\ phase' = [phase EXCEPT ![p] = "failed"]
                       /\ AfterDrop(p)
                       /\ UNCHANGED <<result, queue, sent>>
          ELSE /\ queue' = [queue EXCEPT ![p] = Append(@, NoneMsg)]
               /\ sent' = [sent EXCEPT ![p] = @ + 1]
               /\ phase' = [phase EXCEPT ![p] =
                               IF sent[p] + 1 = poolSize[p] THEN "joining" ELSE @]
               /\ UNCHANGED <<result, pcMain, wpc, unwinding>>
    /\ UNCHANGED <<inputs, waited, submitted, started, pc, feeds_count, sites_count, total_count, held,
                   article_index, rss_index, builds, cursor, wjob, rxLock,
                   stp_refs, stp_poisoned, dropper, execs, item_cursor>>

\* A faulty variant of DropJoin: drop returns without joining the workers.
DropJoinNoWait(p) ==
    /\ strategy = "pool"
    /\ Alive
    /\ phase[p] = "joining"
    /\ phase' = [phase EXCEPT ![p] = "stopped"]
    /\ AfterDrop(p)
    /\ UNCHANGED <<inputs, waited, submitted, started, result, pc, feeds_count, sites_count, total_count, held,
                   article_index, rss_index, builds, cursor, queue, wjob, rxLock,
                   stp_refs, stp_poisoned, dropper, sent, unwinding, execs,
                   item_cursor>>

\* Drop::drop, second loop: while let Some(worker) = self.workers.pop()
\* { worker.join(); } -- returns when every worker has ended.
DropJoin(p) ==
    /\ strategy = "pool"
    /\ Alive
    /\ phase[p] = "joining"
    /\ \A w \in PoolWorkers(p) : WorkerEnded(w)
    /\ phase' = [phase EXCEPT ![p] = "stopped"]
    /\ AfterDrop(p)
    /\ UNCHANGED <<inputs, waited, submitted, started, result, pc, feeds_count, sites_count, total_count, held,
                   article_index, rss_index, builds, cursor, queue, wjob, rxLock,
                   stp_refs, stp_poisoned, dropper, sent, unwinding, execs,
                   item_cursor>>

\* pooled::process_feed_file has dropped its locals: a panic goes on to end
\* the process, File::open's error is returned, or Ok(()) is.
MainExit ==
    /\ strategy = "pool"
    /\ Alive
    /\ pcMain = "exit_fn"
    /\ IF MainThread \in unwinding
          THEN pcMain' = "done" /\ result' = "panic"
          ELSE IF ~fileOk
                  THEN pcMain' = "done" /\ result' = "err"
                  ELSE pcMain' = "returned" /\ result' = result
    /\ UNCHANGED <<inputs, waited, pc, feeds_count, sites_count, total_count, held,
                   article_index, rss_index, builds, cursor, poolVars>>

\* build_pooled after process_feed_file returned Ok: lock the index, build_index.
PoolBuild ==
    /\ strategy = "pool"
    /\ pcMain = "returned"
    /\ rss_index' = build_index(article_index)
    /\ builds' = builds + 1
    /\ result' = "ok"
    /\ pcMain' = "done"
    /\ UNCHANGED <<inputs, waited, pc, feeds_count, sites_count, total_count, held,
                   article_index, cursor, poolVars>>

\* A faulty variant of WorkerRecv: the guard is kept across job.call_box(),
\* so the receiver stays locked while the job runs.
WorkerRecvKeepsLock(w) ==
    /\ Alive
    /\ wpc[w] = "recv"
    /\ queue[PoolOf(w)] # <<>>
    /\ LET msg == Head(queue[PoolOf(w)])
           g == Grant([wpc EXCEPT ![w] = "exited"],
                      [rxLock EXCEPT ![PoolOf(w)] = NoWorker])
       IN  IF msg = NoneMsg
              THEN /\ wpc' = g.wpc
                   /\ rxLock' = g.rxLock
                   /\ queue' = [queue EXCEPT ![PoolOf(w)] =
                                   IF LastReceiver(w) THEN <<>> ELSE Tail(@)]
                   /\ UNCHANGED <<wjob, pc, execs, started>>
              ELSE /\ wpc' = [wpc EXCEPT ![w] = "run"]
                   /\ rxLock' = rxLock
                   /\ wjob' = [wjob EXCEPT ![w] = msg]
                   /\ started' = [started EXCEPT ![PoolOf(w)] = Append(@, msg)]
                   /\ queue' = [queue EXCEPT ![PoolOf(w)] = Tail(@)]
                   /\ pc' = [pc EXCEPT ![msg] = "running"]
                   /\ execs' = [execs EXCEPT ![msg] = @ + 1]
    /\ UNCHANGED <<inputs, waited, submitted, pcMain, result, feeds_count, sites_count, total_count,
                   held, article_index, rss_index, builds, cursor, stp_refs,
                   stp_poisoned, phase, dropper, sent, unwinding, item_cursor>>

\* A faulty variant of WorkerRecv: the newest message is taken, not the oldest.
WorkerRecvNewestFirst(w) ==
    /\ Alive
    /\ wpc[w] = "recv"
    /\ queue[PoolOf(w)] # <<>>
    /\ LET q == queue[PoolOf(w)]
           msg == q[Len(q)]
           g == Grant([wpc EXCEPT ![w] = IF msg = NoneMsg THEN "exited" ELSE "run"],
                      [rxLock EXCEPT ![PoolOf(w)] = NoWorker])
       IN  /\ wpc' = g.wpc
           /\ rxLock' = g.rxLock
           /\ IF msg = NoneMsg
              THEN /\ queue' = [queue EXCEPT ![PoolOf(w)] =
                                   IF LastReceiver(w) THEN <<>>
                                   ELSE SubSeq(@, 1, Len(@) - 1)]
                   /\ UNCHANGED <<wjob, pc, execs, started>>
              ELSE /\ wjob' = [wjob EXCEPT ![w] = msg]
                   /\ started' = [started EXCEPT ![PoolOf(w)] = Append(@, msg)]
                   /\ queue' = [queue EXCEPT ![PoolOf(w)] =
                                   SubSeq(@, 1, Len(@) - 1)]
                   /\ pc' = [pc EXCEPT ![msg] = "running"]
                   /\ execs' = [execs EXCEPT ![msg] = @ + 1]
    /\ UNCHANGED <<inputs, waited, submitted, pcMain, result, feeds_count, sites_count, total_count,
                   held, article_index, rss_index, builds, cursor, stp_refs,
                   stp_poisoned, phase, dropper, sent, unwinding, item_cursor>>

\* Worker loop: recv() under the mutex; None => break; Some(fn_box) => the
\* job is kept, the guard is dropped at the end of the block, and
\* job.call_box() begins.
WorkerRecv(w) ==
    /\ Alive
    /\ wpc[w] = "recv"
    /\ queue[PoolOf(w)] # <<>>
    /\ LET msg == Head(queue[PoolOf(w)])
           g == Grant([wpc EXCEPT ![w] = IF msg = NoneMsg THEN "exited" ELSE "run"],
                      [rxLock EXCEPT ![PoolOf(w)] = NoWorker])
       IN  /\ wpc' = g.wpc
           /\ rxLock' = g.rxLock
           /\ IF msg = NoneMsg
              THEN /\ queue' = [queue EXCEPT ![PoolOf(w)] =
                                   IF LastReceiver(w) THEN <<>> ELSE Tail(@)]
                   /\ UNCHANGED <<wjob, pc, execs, started>>
              ELSE /\ wjob' = [wjob EXCEPT ![w] = msg]
                   /\ started' = [started EXCEPT ![PoolOf(w)] = Append(@, msg)]
                   /\ queue' = [queue EXCEPT ![PoolOf(w)] = Tail(@)]
                   /\ pc' = [pc EXCEPT ![msg] = "running"]
                   /\ execs' = [execs EXCEPT ![msg] = @ + 1]
    /\ UNCHANGED <<inputs, waited, submitted, pcMain, result, feeds_count, sites_count, total_count,
                   held, article_index, rss_index, builds, cursor, stp_refs,
                   stp_poisoned, phase, dropper, sent, unwinding, item_cursor>>

(***************************************************************************)
(* pooled.rs: the feed-job (closure pff) on a worker of the feed pool.     *)
(***************************************************************************)
\* feed.link().unwrap(), feed.title().unwrap(): a panic.  process_feed:
\* Channel::from_url(url)? returns Err, which the closure unwraps only after
\* process_feed has dropped its arguments.  Otherwise the item loop begins.
FeedJobStart(w) ==
    /\ Alive
    /\ PoolOf(w) = "feed"
    /\ wpc[w] = "run"
    /\ pc[wjob[w]] = "running"
    /\ LET f == wjob[w][1]
           first == NextSurviving(f, 1)
       IN  CASE feeds[f].kind = "nolink" ->
                   /\ pc' = [pc EXCEPT ![wjob[w]] = "panicked"]
                   /\ unwinding' = unwinding \cup {w}
                   /\ wpc' = [wpc EXCEPT ![w] = "drop_job"]
                   /\ UNCHANGED item_cursor
             [] feeds[f].kind = "fetchfail" ->
                   /\ pc' = [pc EXCEPT ![wjob[w]] = "failed"]
                   /\ wpc' = [wpc EXCEPT ![w] = "drop_job"]
                   /\ UNCHANGED <<unwinding, item_cursor>>
             [] OTHER ->
                   /\ item_cursor' = [item_cursor EXCEPT ![f] = first]
                   /\ IF first > Len(feeds[f].items)
                         THEN /\ pc' = [pc EXCEPT ![wjob[w]] = "done"]
                              /\ wpc' = [wpc EXCEPT ![w] = "drop_job"]
                         ELSE /\ pc' = [pc EXCEPT ![wjob[w]] = "items"]
                              /\ wpc' = wpc
                   /\ UNCHANGED unwinding
    /\ UNCHANGED <<inputs, waited, submitted, started, pcMain, result, feeds_count, sites_count, total_count,
                   held, article_index, rss_index, builds, cursor, queue, wjob,
                   rxLock, stp_refs, stp_poisoned, phase, dropper, sent, execs>>

\* process_feed, one surviving item: sites_pool.lock().unwrap().execute(pf).
\* The lock panics on a poisoned mutex; execute panics, holding the guard
\* (which poisons the mutex), when the sites pool's Receiver is gone.
FeedJobExecute(w) ==
    /\ Alive
    /\ PoolOf(w) = "feed"
    /\ wpc[w] = "run"
    /\ pc[wjob[w]] = "items"
    /\ LET f == wjob[w][1]
           i == item_cursor[f]
           next == NextSurviving(f, i + 1)
       IN  IF stp_poisoned \/ Disconnected("sites")
              THEN /\ stp_poisoned' = TRUE
                   /\ pc' = [pc EXCEPT ![wjob[w]] = "panicked", ![<<f, i>>] = "rejected"]
                   /\ unwinding' = unwinding \cup {w}
                   /\ wpc' = [wpc EXCEPT ![w] = "drop_job"]
                   /\ UNCHANGED <<queue, item_cursor, submitted>>
              ELSE /\ queue' = [queue EXCEPT !["sites"] = Append(@, <<f, i>>)]
                   /\ submitted' = [submitted EXCEPT !["sites"] = Append(@, <<f, i>>)]
                   /\ item_cursor' = [item_cursor EXCEPT ![f] = next]
                   /\ IF next > Len(feeds[f].items)
                         THEN /\ pc' = [pc EXCEPT ![wjob[w]] = "done",
                                                  ![<<f, i>>] = "queued"]
                              /\ wpc' = [wpc EXCEPT ![w] = "drop_job"]
                         ELSE /\ pc' = [pc EXCEPT ![<<f, i>>] = "queued"]
                              /\ wpc' = wpc
                   /\ UNCHANGED <<stp_poisoned, unwinding>>
    /\ UNCHANGED <<inputs, waited, started, pcMain, result, feeds_count, sites_count, total_count,
                   held, article_index, rss_index, builds, cursor, wjob, rxLock,
                   stp_refs, phase, dropper, sent, execs>>

\* The end of a feed-job on worker w, refs being the strong count of
\* stp_arc: back to the head of the loop, or, when the job panicked
\* (process_feed(..).unwrap() panics now, on a failed fetch), the thread
\* ends: it drops its clone of the Receiver's Arc, and with the last clone
\* the Receiver and the closures still queued, each with its clone of
\* stp_arc; the sites pool is dropped with the last of these.
JobEnd(w, refs) ==
    IF w \in unwinding \/ pc[wjob[w]] = "failed"
       THEN LET lost == IF LastReceiver(w) THEN QueuedJobs("feed") ELSE {}
            IN  /\ unwinding' = unwinding \cup {w}
                /\ pc' = [t \in ThreadIds |->
                             IF t \in lost THEN "dropped"
                             ELSE IF t = wjob[w] THEN "panicked" ELSE pc[t]]
                /\ queue' = [queue EXCEPT !["feed"] =
                                IF LastReceiver(w) THEN <<>> ELSE @]
                /\ stp_refs' = refs - Cardinality(lost)
                /\ IF lost # {} /\ refs = Cardinality(lost)
                      THEN /\ phase' = [phase EXCEPT !["sites"] = "sending"]
                           /\ dropper' = [dropper EXCEPT !["sites"] = w]
                           /\ wpc' = [wpc EXCEPT ![w] = "site_drop_exit"]
                      ELSE /\ wpc' = [wpc EXCEPT ![w] = "panicked"]
                           /\ UNCHANGED <<phase, dropper>>
                /\ rxLock' = rxLock
       ELSE /\ LET g == Grant([wpc EXCEPT ![w] = "lock"], rxLock)
               IN  wpc' = g.wpc /\ rxLock' = g.rxLock
            /\ stp_refs' = refs
            /\ UNCHANGED <<pc, queue, phase, dropper, unwinding>>

\* The job's clone of stp_arc is dropped (at the return of process_feed, or
\* with the closure when it unwinds); the sites pool is dropped with the
\* last clone, by this worker, before the job ends.
WorkerDropJob(w) ==
    /\ Alive
    /\ wpc[w] = "drop_job"
    /\ IF stp_refs = 1
          THEN /\ stp_refs' = 0
               /\ phase' = [phase EXCEPT !["sites"] = "sending"]
               /\ dropper' = [dropper EXCEPT !["sites"] = w]
               /\ wpc' = [wpc EXCEPT ![w] = "site_drop_job"]
               /\ UNCHANGED <<pc, queue, unwinding, rxLock>>
          ELSE JobEnd(w, stp_refs - 1)
    /\ UNCHANGED <<inputs, waited, submitted, started, pcMain, result, feeds_count, sites_count, total_count,
                   held, article_index, rss_index, builds, cursor, wjob,
                   stp_poisoned, sent, execs, item_cursor>>

\* The worker has dropped the sites pool (its Drop returned or panicked):
\* the job ends.
WorkerAfterJob(w) ==
    /\ Alive
    /\ wpc[w] = "after_job"
    /\ JobEnd(w, stp_refs)
    /\ UNCHANGED <<inputs, waited, submitted, started, pcMain, result, feeds_count, sites_count, total_count,
                   held, article_index, rss_index, builds, cursor, wjob,
                   stp_poisoned, sent, execs, item_cursor>>

\* A faulty variant of ArticleJob: the add is made on a copy of the index read
\* before any other job wrote, and written back whole (outside the lock).
ArticleJobLostUpdate(w) ==
    /\ Alive
    /\ PoolOf(w) = "sites"
    /\ wpc[w] = "run"
    /\ LET j == wjob[w]
       IN  IF Item(j) = "fail"
              THEN /\ wpc' = [wpc EXCEPT ![w] = "panicked"]
                   /\ pc' = [t \in ThreadIds |->
                                IF t = j THEN "panicked"
                                ELSE IF LastReceiver(w) /\ t \in QueuedJobs("sites")
                                        THEN "dropped" ELSE pc[t]]
                   /\ queue' = [queue EXCEPT !["sites"] =
                                   IF LastReceiver(w) THEN <<>> ELSE @]
                   /\ UNCHANGED <<article_index, rxLock>>
              ELSE /\ article_index' = add(EmptyIndex, Article(j[1], j[2]),
                                           article_words(Article(j[1], j[2])))
                   /\ pc' = [pc EXCEPT ![j] = "done"]
                   /\ LET g == Grant([wpc EXCEPT ![w] = "lock"], rxLock)
                      IN  wpc' = g.wpc /\ rxLock' = g.rxLock
                   /\ queue' = queue
    /\ UNCHANGED <<inputs, waited, submitted, started, pcMain, result, feeds_count, sites_count, total_count,
                   held, rss_index, builds, cursor, wjob, stp_refs,
                   stp_poisoned, phase, dropper, sent, unwinding, execs,
                   item_cursor>>

(***************************************************************************)
(* pooled.rs: the article-job (closure pf) on a worker of the sites pool.  *)
(***************************************************************************)
\* process_article(&article).unwrap(); ind.lock().unwrap().add(..)
\* A failed fetch panics the worker, which ends.
ArticleJob(w) ==
    /\ Alive
    /\ PoolOf(w) = "sites"
    /\ wpc[w] = "run"
    /\ LET j == wjob[w]
       IN  IF Item(j) = "fail"
              THEN /\ wpc' = [wpc EXCEPT ![w] = "panicked"]
                   /\ pc' = [t \in ThreadIds |->
                                IF t = j THEN "panicked"
                                ELSE IF LastReceiver(w) /\ t \in QueuedJobs("sites")
                                        THEN "dropped" ELSE pc[t]]
                   /\ queue' = [queue EXCEPT !["sites"] =
                                   IF LastReceiver(w) THEN <<>> ELSE @]
                   /\ UNCHANGED <<article_index, rxLock>>
              ELSE /\ article_index' = add(article_index, Article(j[1], j[2]),
                                           article_words(Article(j[1], j[2])))
                   /\ pc' = [pc EXCEPT ![j] = "done"]
                   /\ LET g == Grant([wpc EXCEPT ![w] = "lock"], rxLock)
                      IN  wpc' = g.wpc /\ rxLock' = g.rxLock
                   /\ queue' = queue
    /\ UNCHANGED <<inputs, waited, submitted, started, pcMain, result, feeds_count, sites_count, total_count,
                   held, rss_index, builds, cursor, wjob, stp_refs,
                   stp_poisoned, phase, dropper, sent, unwinding, execs,
                   item_cursor>>

(***************************************************************************)
(* Specifications.                                                         *)
(***************************************************************************)
FeedStep(f) ==
    \/ FeedAcquireFeeds(f)
    \/ FeedAcquireTotal(f)
    \/ FeedProcess(f)
    \/ FeedJoin(f)
    \/ FeedReleaseFeeds(f)
    \/ FeedReleaseTotal(f)

ArticleStep(t) ==
    \/ ArticleAcquireSite(t)
    \/ ArticleAcquireTotal(t)
    \/ ArticleProcess(t)
    \/ ArticleReleaseSite(t)
    \/ ArticleReleaseTotal(t)

NextMulti ==
    \/ MultiOpen
    \/ MultiJoin
    \/ MultiBuild
    \/ \E f \in FeedIds : FeedStep(f)
    \/ \E t \in ThreadIds : ArticleStep(t)
    \/ \E t \in ThreadIds : SpuriousWakeup(t)

NextSingle == SingleOpen \/ SingleFeed \/ SingleBuild

WorkerStep(w) ==
    \/ WorkerRecv(w)
    \/ FeedJobStart(w)
    \/ FeedJobExecute(w)
    \/ WorkerDropJob(w)
    \/ WorkerAfterJob(w)
    \/ ArticleJob(w)

NextPool ==
    \/ PoolNew
    \/ PoolExecuteFeed
    \/ MainDropStp
    \/ MainDropFeedPool
    \/ \E p \in Pools : DropSend(p)
    \/ \E p \in Pools : DropJoin(p)
    \/ MainExit
    \/ PoolBuild
    \/ \E w \in Workers : WorkerStep(w)

InitPool == InitWith({"pool"})
SpecPool == InitPool /\ [][NextPool]_vars

Init == InitWith({"single", "multi", "pool"})
Next == NextSingle \/ NextMulti \/ NextPool
Spec == Init /\ [][Next]_vars

InitMulti == InitWith({"multi"})
SpecMulti == InitMulti /\ [][NextMulti]_vars

InitSingle == InitWith({"single"})
SpecSingle == InitSingle /\ [][NextSingle]_vars

(***************************************************************************)
(* Properties of the dynamic strategy.                                     *)
(***************************************************************************)
Spawned(t) == pc[t] # "unspawned"
Live(t) == Spawned(t) /\ ~Terminated(t)
WaitStates == {"fc_wait", "sc_wait", "tc_wait"}

NoFailures ==
    \A f \in FeedIds :
        /\ feeds[f].kind = "ok"
        /\ \A i \in 1..Len(feeds[f].items) : feeds[f].items[i] # "fail"

Min(a, b) == IF a <= b THEN a ELSE b

\* C1: in every reachable state of a multi crawl the three counters stay
\* within their limits: 0 <= total <= cap_total, 0 <= feeds <= cap_feed and
\* 0 <= sites[s] <= cap_site for every site s.
C1_CountersWithinCaps ==
    /\ 0 <= total_count /\ total_count <= cap.total
    /\ 0 <= feeds_count /\ feeds_count <= cap.feeds
    /\ \A s \in DOMAIN sites_count :
           0 <= sites_count[s] /\ sites_count[s] <= cap.sites

\* A state where the total tier and the feeds tier are full, a site is full,
\* and a thread sits in the wait set of the total condvar.
C1_Witness ==
    /\ total_count = cap.total
    /\ feeds_count = cap.feeds
    /\ \E s \in DOMAIN sites_count : sites_count[s] = cap.sites
    /\ Waiters("tc_wait") # {}

\* C5: every increment a thread made is undone by the time the thread has
\* ended, also when it ended by a failure of its protected work.
C5_ReleasedOnEveryExit ==
    \A t \in ThreadIds : Terminated(t) => held[t] = NoHold

\* A thread cannot move any more, whatever wakeups it gets: it stands at the
\* head of a full tier, or joins a thread that has not ended.
StuckAt(t) ==
    \/ pc[t] \in {"fc_lock", "fc_wait"} /\ feeds_count >= cap.feeds
    \/ pc[t] \in {"tc_lock", "tc_wait"} /\ total_count >= cap.total
    \/ pc[t] \in {"sc_lock", "sc_wait"} /\ Site(t) \in DOMAIN sites_count
                                       /\ sites_count[Site(t)] >= cap.sites
    \/ pc[t] = "join" /\ \E u \in ArticleThreads(t[1]) : Live(u)

Stuck ==
    /\ pcMain = "join"
    /\ \E t \in ThreadIds : Live(t)
    /\ \A t \in ThreadIds : Live(t) => StuckAt(t)

\* C6: once the feed list has been read, a multi crawl runs to completion
\* whatever fetches fail.  A stuck state is one no step can ever leave (the
\* counters no longer change), so the claim needs that none is reachable;
\* the limits are taken as the program has them, total above feeds.
C6_NeverStuck == cap.total > cap.feeds => ~Stuck

\* A thread is blocked when it is in a condvar's wait set or joins a thread
\* that has not ended.
Blocked(t) ==
    \/ pc[t] \in WaitStates
    \/ pc[t] = "join" /\ \E u \in ArticleThreads(t[1]) : Live(u)

Deadlocked ==
    /\ \E t \in ThreadIds : Live(t)
    /\ \A t \in ThreadIds : Live(t) => Blocked(t)

\* C8 as claimed: for every choice of positive caps, when no fetch fails, no
\* reachable state has unfinished threads that are all blocked.
C8_DeadlockFreeAnyCaps == NoFailures => ~Deadlocked

\* C8 as amended: the same, for the caps with cap_total > min(cap_feed,
\* number of feeds), so that the feed threads cannot fill the total tier.
C8_DeadlockFree ==
    (NoFailures /\ cap.total > Min(cap.feeds, NumFeeds)) => ~Deadlocked

\* No failure, the total tier not fillable by feed threads, and threads
\* waiting on the sites condvar and on the total condvar at once.
C8_Witness ==
    /\ NoFailures
    /\ cap.total > Min(cap.feeds, NumFeeds)
    /\ Waiters("sc_wait") # {}
    /\ Waiters("tc_wait") # {}
    /\ \E f \in FeedIds : pc[FeedThread(f)] = "join"

\* C9 as claimed: a thread waiting for capacity on a tier holds no slot of
\* any other tier.
C9_WaiterHoldsNothing ==
    \A t \in ThreadIds : pc[t] \in WaitStates => held[t] = NoHold

\* C9 as amended: a thread waiting on its specific tier (feeds, sites[site])
\* holds no slot at all, in particular none of the total tier; a thread
\* waiting on the total tier holds exactly its one specific-tier slot.
C9_WaiterHolds ==
    \A t \in ThreadIds :
        /\ pc[t] \in {"fc_wait", "sc_wait"} => held[t] = NoHold
        /\ pc[t] = "tc_wait" =>
               held[t] = IF IsFeedThread(t)
                            THEN [feeds |-> 1, sites |-> 0, total |-> 0]
                            ELSE [feeds |-> 0, sites |-> 1, total |-> 0]

\* An article thread waits on the sites condvar while a feed thread and an
\* article thread wait on the total condvar.
C9_Witness ==
    /\ Waiters("sc_wait") # {}
    /\ \E t \in Waiters("tc_wait") : IsFeedThread(t)
    /\ \E t \in Waiters("tc_wait") : ~IsFeedThread(t)

\* C10: a thread gives back its specific slot (feeds, sites[site]) only
\* after it has given back its total slot.
C10_ReleaseInReverseOrder ==
    [][\A t \in ThreadIds :
          (held'[t].feeds < held[t].feeds \/ held'[t].sites < held[t].sites)
              => held[t].total = 0]_vars

\* C4: whatever the strategy and the interleaving, the finalized index of a
\* run that has ended is the one the single strategy yields on the same
\* feed list and the same outcomes of the fetches.
C4_SameAsSingle ==
    pcMain = "done" => rss_index = build_single.rss_index

(***************************************************************************)
(* Properties of the worker pool and of the pooled strategy.               *)
(***************************************************************************)
\* The tasks passed to execute of pool p that were accepted.
Submitted(p) ==
    {t \in ThreadIds : /\ IsFeedThread(t) <=> p = "feed"
                       /\ pc[t] \notin {"unspawned", "rejected"}}

\* C2: once the Drop of a pool has returned, none of its workers is still
\* running and every task passed to execute before has run exactly once.
C2_DrainedExactlyOnce ==
    \A p \in Pools :
        phase[p] = "stopped" =>
            /\ \A w \in PoolWorkers(p) : WorkerEnded(w)
            /\ \A t \in Submitted(p) : execs[t] = 1

\* C7: in the pooled strategy a job whose fetch fails leaves the pool as it
\* was: until its shutdown begins the pool has all its n workers alive, and
\* no task is refused or thrown away unexecuted.
C7_FailureIsolated ==
    /\ \A p \in Pools :
           phase[p] = "running" =>
               Cardinality({w \in PoolWorkers(p) : ~WorkerEnded(w)}) = poolSize[p]
    /\ \A t \in ThreadIds : pc[t] \notin {"dropped", "rejected"}

(***************************************************************************)
(* Properties of the concurrent strategies together.                       *)
(***************************************************************************)
\* A job that may still run: a thread of the multi strategy that has not
\* ended, a task of the pooled strategy that is queued or being executed.
JobActive(t) ==
    IF strategy = "multi" THEN Live(t)
    ELSE pc[t] \in {"queued", "running", "items", "failed"}

\* C3: in the multi and pooled strategies, from the return of
\* process_feed_file on, no feed-job or article-job is unfinished and no
\* worker thread is left; build_index runs at most once, exactly once when
\* the build succeeds, and no add follows it: the finalized index stays the
\* finalization of the accumulator.
C3_JoinedBeforeBuild ==
    strategy \in {"multi", "pool"} =>
        /\ (pcMain = "returned" \/ builds > 0) =>
               /\ \A t \in ThreadIds : ~JobActive(t)
               /\ \A w \in Workers : wpc[w] \in {"absent", "exited", "panicked"}
               /\ builds <= 1
               /\ builds = 1 => rss_index = build_index(article_index)
        /\ (pcMain = "done" /\ result = "ok") => builds = 1

\* The pooled build has run over an index that article-jobs wrote, the sites
\* pool having been shut down by a feed worker that dropped the last clone.
C3_Witness ==
    /\ strategy = "pool"
    /\ builds = 1
    /\ dropper["sites"] \in Workers
    /\ \E t \in ThreadIds : ~IsFeedThread(t) /\ pc[t] = "done"
    /\ \E t \in ThreadIds : ~IsFeedThread(t) /\ pc[t] = "panicked"

\* The pool a task is passed to.
JobPool(t) == IF IsFeedThread(t) THEN "feed" ELSE "sites"

\* C11: execute fails only once the shutdown of the pool has begun: while
\* the pool is running, also after jobs have failed inside its workers, no
\* task passed to execute is refused.
C11_ExecuteFailsOnlyAfterShutdown ==
    \A t \in ThreadIds : pc[t] = "rejected" => phase[JobPool(t)] # "running"

IsPrefix(a, b) == Len(a) <= Len(b) /\ \A k \in 1..Len(a) : a[k] = b[k]

\* C12: a pool serves its tasks in the order of their submission: the tasks
\* its workers have dequeued, in the order they were dequeued, are always
\* the first so many of the tasks execute has enqueued, in the order they
\* were enqueued - whatever the number of workers and the interleaving.
C12_FifoOrder ==
    \A p \in Pools : IsPrefix(started[p], submitted[p])

\* Both workers of the sites pool are executing, the pool has handed out at
\* least three tasks, and a task is still queued behind them.
C12_Witness ==
    /\ poolSize["sites"] = 2
    /\ \A w \in PoolWorkers("sites") : wpc[w] = "run"
    /\ Len(started["sites"]) >= 3
    /\ Len(submitted["sites"]) > Len(started["sites"])

\* The tasks of pool p a worker has received and not yet finished.
Executing(p) ==
    {t \in ThreadIds : JobPool(t) = p /\ pc[t] \in {"running", "items", "failed"}}

\* C13: in the pooled strategy the feed-jobs executing at any instant are at
\* most as many as the feed pool has workers, and the article-jobs executing
\* at most as many as the sites pool has, whatever the feeds and articles.
C13_ExecutingWithinPoolSize ==
    \A p \in Pools : Cardinality(Executing(p)) <= poolSize[p]

\* Both pools are at their bound at once - one feed-job on the one feed
\* worker, two article-jobs on the two sites workers - and an article-job
\* waits in the queue.
C13_Witness ==
    /\ Cardinality(Executing("feed")) = poolSize["feed"]
    /\ Cardinality(Executing("sites")) = poolSize["sites"]
    /\ poolSize["sites"] = 2
    /\ QueuedJobs("sites") # {}

\* The article-jobs that have made their add.
Added ==
    {t \in ThreadIds : ~IsFeedThread(t) /\ pc[t] \in {"sc_release", "tc_release", "done"}}

\* The last job of a set, by feed and then by item.
LastJob(S) ==
    CHOOSE t \in S : \A u \in S : u[1] < t[1] \/ (u[1] = t[1] /\ u[2] <= t[2])

RECURSIVE MergeInOrder(_)
\* The accumulator after the adds of the jobs S, made one after the other in
\* the order of feed and item.
MergeInOrder(S) ==
    IF S = {} THEN EmptyIndex
    ELSE LET t == LastJob(S)
         IN  add(MergeInOrder(S \ {t}), Article(t[1], t[2]),
                 article_words(Article(t[1], t[2])))

\* C14: the merge is atomic and independent of order: in the concurrent
\* strategies the accumulator always holds the whole contributions of the
\* jobs that have made their add, and holds what adding them one by one in
\* the order of feed and item gives, in whatever order they were in fact
\* serialized; the finalized index is the finalization of that.
C14_MergeOrderIndependent ==
    strategy \in {"multi", "pool"} =>
        /\ article_index = MergeInOrder(Added)
        /\ builds = 1 => rss_index = build_index(MergeInOrder(Added))

\* The index has been finalized after three adds or more, two of them to the
\* same article (items of two feeds on one host), whose counts were summed.
C14_Witness ==
    /\ strategy \in {"multi", "pool"}
    /\ builds = 1
    /\ Cardinality(Added) >= 3
    /\ \E t, u \in Added : t # u /\ Article(t[1], t[2]) = Article(u[1], u[2])
    /\ Cardinality(DOMAIN article_index) >= 2

(***************************************************************************)
(* Properties of the three strategies.                                     *)
(***************************************************************************)
\* The items of feed f that survive the match of process_feed, and the items
\* of all feeds that do not.
SurvivingItems(f) == {t \in ArticleThreads(f) : Survives(f, t[2])}
SkippedItems == {t \in ThreadIds : t[1] \in FeedIds /\ t \in ArticleThreads(t[1])
                                   /\ ~Survives(t[1], t[2])}

\* The item loop of process_feed has run to its end for feed f (single: and
\* no later fetch has failed, which ends the crawl in the middle of a feed).
ItemLoopDone(f) ==
    CASE strategy = "multi" ->
             pc[FeedThread(f)] \in {"join", "fc_release", "tc_release", "done"}
      [] strategy = "pool" -> pc[FeedThread(f)] = "done"
      [] OTHER -> result # "err" /\ cursor > f

C16_OpenFailureStartsNothing ==
    ~fileOk =>
        /\ \A t \in ThreadIds : pc[t] = "unspawned" /\ execs[t] = 0 /\ held[t] = NoHold
        /\ \A p \in Pools : submitted[p] = <<>> /\ started[p] = <<>>
        /\ article_index = EmptyIndex /\ builds = 0
        /\ feeds_count = 0 /\ total_count = 0 /\ DOMAIN sites_count = {}
        /\ result \in {"none", "err"}
        /\ pcMain # "done" => ENABLED Next
        /\ pcMain = "done" =>
               /\ result = "err"
               /\ \A w \in Workers : wpc[w] \in {"absent", "exited"}
               /\ strategy = "pool" => \A p \in Pools : phase[p] = "stopped"

\* The pooled run on an unreadable file has ended: three workers were
\* started and have exited, although the list would have held feeds.
C16_Witness ==
    /\ ~fileOk
    /\ strategy = "pool"
    /\ pcMain = "done"
    /\ NumFeeds = MaxFeeds
    /\ Cardinality({w \in Workers : wpc[w] = "exited"}) = MaxWorkersTotal

\* The stop messages of pool p still in its queue.
QueuedStops(p) == {k \in 1..Len(queue[p]) : queue[p][k] = NoneMsg}

\* C17: the shutdown of a pool of n workers enqueues exactly n stop
\* messages - each of its sends succeeds - and all of them behind every task;
\* each worker consumes exactly one of them and exits on it: the stop
\* messages sent are those still queued and one per exited worker, and when
\* the shutdown has returned every worker has exited on its own.
C17_OneSentinelPerWorker ==
    \A p \in Pools :
        /\ phase[p] # "failed"
        /\ sent[p] <= poolSize[p]
        /\ phase[p] \in {"joining", "stopped"} => sent[p] = poolSize[p]
        /\ \A k \in QueuedStops(p) : \A m \in (k + 1)..Len(queue[p]) : m \in QueuedStops(p)
        /\ sent[p] = Cardinality(QueuedStops(p))
                       + Cardinality({w \in PoolWorkers(p) : wpc[w] = "exited"})
        /\ phase[p] = "stopped" => \A w \in PoolWorkers(p) : wpc[w] = "exited"

\* The workers of pool p that are between jobs: asking for the receiver's
\* mutex or holding it in recv().
Idle(p) == {w \in PoolWorkers(p) : wpc[w] \in {"lock", "recv"}}

\* C18: a worker holds the mutex of the shared receiver only while it waits
\* for and takes one message, never while it executes a job; so whenever a
\* task is queued and some worker of the pool is between jobs, a worker can
\* take the task, however many of the others are executing.
C18_LockOnlyWhileReceiving ==
    \A p \in Pools :
        /\ \A w \in PoolWorkers(p) : rxLock[p] = w => wpc[w] = "recv"
        /\ (Alive /\ queue[p] # <<>> /\ Idle(p) # {})
              => \E w \in PoolWorkers(p) : ENABLED WorkerRecv(w)

\* C18 witness: in a pool of two, one worker is executing an article-job
\* while the other holds the receiver's mutex with a task queued.
C18_Witness ==
    /\ poolSize["sites"] = 2
    /\ \E w, v \in PoolWorkers("sites") :
          /\ wpc[w] = "run"
          /\ pc[wjob[w]] = "running"
          /\ rxLock["sites"] = v
          /\ wpc[v] = "recv"
    /\ QueuedJobs("sites") # {}

\* Feed-jobs that may still submit article-jobs: main is still in its loop
\* over the feed file, or a feed-job is queued or running.
FeedJobsSubmitting ==
    \/ pcMain = "loop"
    \/ \E f \in FeedIds : pc[FeedThread(f)] \in {"queued", "running", "items"}

\* pooled::process_feed_file has returned (Ok or Err) to build_pooled.
Returned ==
    /\ strategy = "pool"
    /\ pcMain \in {"returned", "done"}
    /\ MainThread \notin unwinding

\* The Drop of pool p has run, to its end or to a panic, and no worker of
\* the pool is left running.
ShutDown(p) ==
    /\ phase[p] \in {"stopped", "failed"}
    /\ \A w \in PoolWorkers(p) : WorkerEnded(w)

\* While a feed-job may still submit, the shutdown of the sites pool has not
\* begun and none of its stop messages is enqueued; when process_feed_file
\* has returned, the sites pool is shut down.
ShutdownAfterSubmissions ==
    strategy = "pool" =>
        /\ FeedJobsSubmitting => phase["sites"] = "running" /\ sent["sites"] = 0
        /\ Returned => ShutDown("sites")

\* The shutdown of the sites pool begins at most once: once begun, the pool
\* is never running again and the thread that runs its Drop stays the same;
\* and no article-job is submitted from then on.
ShutdownOnce ==
    phase["sites"] \notin {"none", "running"} =>
        /\ phase'["sites"] \notin {"none", "running"}
        /\ dropper'["sites"] = dropper["sites"]
        /\ submitted'["sites"] = submitted["sites"]

\* C19: in the pooled strategy the shutdown of the sites pool begins only
\* after every feed-job has finished submitting its article-jobs - no
\* article-job is submitted after the pool's stop messages are enqueued -
\* and the pool is shut down exactly once before process_feed_file returns.
C19_ShutdownOnceAfterSubmissions ==
    []ShutdownAfterSubmissions /\ [][ShutdownOnce]_vars

\* C19 witness: two feeds, each with a surviving item; the second feed-job
\* has submitted its article-job after main left process_feed_file's loop,
\* and process_feed_file has returned with the sites pool stopped.
C19_Witness ==
    /\ Returned
    /\ NumFeeds = 2
    /\ Len(submitted["sites"]) >= 2
    /\ phase["sites"] = "stopped"
    /\ dropper["sites"] # MainThread
\* Every article thread the bounds allow.
AllArticles == (1..MaxFeeds) \X (1..MaxItems)

\* Fair scheduling of the dynamic strategy: the main thread, every feed
\* thread and every article thread takes a step it is continuously able to
\* take.  A spurious wakeup is never owed.
FairMulti ==
    /\ WF_vars(MultiOpen \/ MultiJoin \/ MultiBuild)
    /\ \A f \in 1..MaxFeeds : WF_vars(FeedStep(f))
    /\ \A t \in AllArticles : WF_vars(ArticleStep(t))

\* The inputs of the dynamic strategy on which no fetch fails and the total
\* tier is wider than the feed tier, as with the constants of multi.rs.
InitMultiFair ==
    /\ InitMulti
    /\ NoFailures
    /\ cap.total > Min(cap.feeds, NumFeeds)

SpecMultiFair == InitMultiFair /\ [][NextMulti]_vars /\ FairMulti

\* C20: in the dynamic strategy under fair scheduling, with no failing fetch
\* (and the total tier wider than the feed tier, as the constants have it),
\* an article thread waiting on the per-site tier is eventually admitted to
\* its site, although one condition variable serves all sites and a release
\* wakes one waiter only.
C20_SiteWaiterAdmitted ==
    \A t \in AllArticles :
        (/\ NoFailures
         /\ cap.total > Min(cap.feeds, NumFeeds)
         /\ t \in ThreadIds
         /\ pc[t] = "sc_wait")
            ~> (held[t].sites = 1)


\* C20 witness: with no failing fetch, an article thread that slept on the
\* site tier holds a slot of its site while a thread of another site sleeps
\* on the same condition variable.
C20_Witness ==
    /\ NoFailures
    /\ \E t \in waited :
          /\ held[t].sites = 1
          /\ \E u \in ThreadIds :
                /\ ~IsFeedThread(u)
                /\ pc[u] = "sc_wait"
                /\ Site(u) # Site(t)

====
